---- MODULE Spec2Model ----
(***************************************************************************)
(* Model of sitemap_gen.py: a one-shot batch script that reads the site    *)
(* domain from CNAME, walks the working directory for HTML files, splits   *)
(* the URL paths into chunks, writes one randomly named sitemap fragment   *)
(* per chunk, and rewrites sitemap.xml and robots.txt.                     *)
(*                                                                         *)
(* Strings are sequences of one-character strings, so that replace,        *)
(* endswith, slicing, strip and the regular expression are computed        *)
(* character by character as Python computes them.                         *)
(***************************************************************************)
EXTENDS Integers, Sequences, FiniteSets, Bags, TLC

(***************************************************************************)
(* Bounds of the model.                                                    *)
(***************************************************************************)
\* number of invocations of the script in one behaviour
MaxRuns == 2
\* chunk sizes 1..MaxChunk are explored next to the script's own MAX_URLS
MaxChunk == 2
\* length of the URL lists handed directly to the chunking and the writer
MaxLen == 3

\* the letters random.choice draws from in the model (a subset of a-z0-9)
RandomLetters == {"a", "7"}
\* generate_random_name(length=12)
DEFAULT_LENGTH == 12

(***************************************************************************)
(* Python string primitives.                                               *)
(***************************************************************************)
Range(s) == {s[k] : k \in 1..Len(s)}

startswith(s, p) == Len(s) >= Len(p) /\ SubSeq(s, 1, Len(p)) = p

endswith(s, p) == Len(s) >= Len(p) /\ SubSeq(s, Len(s) - Len(p) + 1, Len(s)) = p

\* s[:-n]
DropLast(s, n) == SubSeq(s, 1, Len(s) - n)

\* str.replace(old, new): non-overlapping occurrences, left to right
RECURSIVE replace(_, _, _)
replace(s, old, new) ==
    IF Len(s) < Len(old) THEN s
    ELSE IF startswith(s, old)
         THEN new \o replace(SubSeq(s, Len(old) + 1, Len(s)), old, new)
         ELSE <<Head(s)>> \o replace(Tail(s), old, new)

RECURSIVE lstrip(_, _)
lstrip(s, chars) ==
    IF s # <<>> /\ Head(s) \in chars THEN lstrip(Tail(s), chars) ELSE s

RECURSIVE rstrip(_, _)
rstrip(s, chars) ==
    IF s # <<>> /\ s[Len(s)] \in chars THEN rstrip(DropLast(s, 1), chars) ELSE s

Whitespace == {" ", "\t", "\n", "\r"}

\* str.strip() without arguments
strip(s) == rstrip(lstrip(s, Whitespace), Whitespace)

\* code points, in increasing order, of the characters file names are sorted by
CodeOrder ==
    <<"\n", ".", "0", "1", "2", "3", "4", "5", "6", "7", "8", "9", "A", "_",
      "a", "b", "c", "d", "e", "f", "g", "h", "i", "j", "k", "l", "m", "n",
      "o", "p", "q", "r", "s", "t", "u", "v", "w", "x", "y", "z">>

ord(c) == CHOOSE k \in 1..Len(CodeOrder) : CodeOrder[k] = c

\* Python's < on str: lexicographic by code point, a proper prefix is smaller
RECURSIVE StrLess(_, _)
StrLess(a, b) ==
    IF b = <<>> THEN FALSE
    ELSE IF a = <<>> THEN TRUE
    ELSE IF Head(a) = Head(b) THEN StrLess(Tail(a), Tail(b))
    ELSE ord(Head(a)) < ord(Head(b))

\* sorted(list(set(xs))) for a set xs of strings
RECURSIVE SortedSet(_)
SortedSet(S) ==
    IF S = {} THEN <<>>
    ELSE LET m == CHOOSE x \in S : \A y \in S \ {x} : StrLess(x, y)
         IN  <<m>> \o SortedSet(S \ {m})

(***************************************************************************)
(* String literals of the script.                                          *)
(***************************************************************************)
INDEX_HTML == <<"i", "n", "d", "e", "x", ".", "h", "t", "m", "l">>
DOT_HTML == <<".", "h", "t", "m", "l">>
DOT_GIT == <<".", "g", "i", "t">>
DOT == <<".">>
SLASH == <<"/">>
DOT_SLASH == <<".", "/">>
HTTPS == <<"h", "t", "t", "p", "s", ":", "/", "/">>
EXAMPLE_COM == <<"e", "x", "a", "m", "p", "l", "e", ".", "c", "o", "m">>
SM_ == <<"s", "m", "_">>
DOT_XML == <<".", "x", "m", "l">>
SITEMAP_XML == <<"s", "i", "t", "e", "m", "a", "p", ".", "x", "m", "l">>
ROBOTS_TXT == <<"r", "o", "b", "o", "t", "s", ".", "t", "x", "t">>
CNAME == <<"C", "N", "A", "M", "E">>
LowerDigits ==
    {"a", "b", "c", "d", "e", "f", "g", "h", "i", "j", "k", "l", "m", "n",
     "o", "p", "q", "r", "s", "t", "u", "v", "w", "x", "y", "z",
     "0", "1", "2", "3", "4", "5", "6", "7", "8", "9"}
MAX_URLS == 2000

\* a file that may be absent: its content when it exists
NoFile == [exists |-> FALSE, content |-> <<>>]
File(c) == [exists |-> TRUE, content |-> c]

(***************************************************************************)
(* The functions of the script.                                            *)
(***************************************************************************)

\* get_domain_from_cname() without the fallback: a missing file reads as empty
get_domain_from_cname_nodefault(f) ==
    [domain |-> strip(f.content), warning |-> ~f.exists]

\* get_domain_from_cname(): the CNAME file's content stripped, or the
\* default (with a warning) when the file does not exist
get_domain_from_cname(f) ==
    IF ~f.exists
    THEN [domain |-> EXAMPLE_COM, warning |-> TRUE]
    ELSE [domain |-> strip(f.content), warning |-> FALSE]

\* os.path.join(root, name) for a root that does not end in a slash
path_join(root, name) == root \o SLASH \o name

\* lines 25-29: the URL path of the file `file` found under `root`
url_path(root, file) ==
    LET full_path == replace(path_join(root, file), DOT_SLASH, <<>>)
    IN  IF endswith(full_path, INDEX_HTML)
        THEN DropLast(full_path, 10)
        ELSE full_path

\* dirs.remove('.git'): the first occurrence is removed
RECURSIVE list_remove(_, _)
list_remove(xs, x) ==
    IF xs = <<>> THEN <<>>
    ELSE IF Head(xs) = x THEN Tail(xs)
    ELSE <<Head(xs)>> \o list_remove(Tail(xs), x)

SelectHtml(files) == SelectSeq(files, LAMBDA f : endswith(f, DOT_HTML))

\* lines 19-24: os.walk('.') top-down with '.git' pruned; the HTML files in
\* the order the loop meets them, each with the directory it was found in
\* (comps: the directory's components below the working directory)
RECURSIVE walk_html(_, _, _)
RECURSIVE walk_dirs(_, _, _, _)
walk_html(tree, comps, root) ==
    LET dirs == IF DOT_GIT \in Range(tree[comps].dirs)
                THEN list_remove(tree[comps].dirs, DOT_GIT)
                ELSE tree[comps].dirs
        html == SelectHtml(tree[comps].files)
    IN  [k \in 1..Len(html) |-> [comps |-> comps, root |-> root, file |-> html[k]]]
        \o walk_dirs(tree, comps, root, dirs)
walk_dirs(tree, comps, root, dirs) ==
    IF dirs = <<>> THEN <<>>
    ELSE walk_html(tree, Append(comps, Head(dirs)), path_join(root, Head(dirs)))
         \o walk_dirs(tree, comps, root, Tail(dirs))

get_all_html_files(tree) ==
    LET found == walk_html(tree, <<>>, DOT)
    IN  [k \in 1..Len(found) |-> url_path(found[k].root, found[k].file)]

\* generate_random_name(length): the names the generator returns in the
\* model, those whose token repeats one of RandomLetters
generate_random_name(length) ==
    {SM_ \o [k \in 1..length |-> c] \o DOT_XML : c \in RandomLetters}

\* the fragment writer removing one leading slash only
chunk_locs_one_slash(urls, domain) ==
    [k \in 1..Len(urls) |->
        HTTPS \o domain \o SLASH \o
            (IF startswith(urls[k], SLASH) THEN Tail(urls[k]) ELSE urls[k])]

\* lines 44-48: the <loc> values of a fragment, one per URL path
\* (lastmod and priority of an entry are not modelled)
chunk_locs(urls, domain) ==
    [k \in 1..Len(urls) |-> HTTPS \o domain \o SLASH \o lstrip(urls[k], {"/"})]

\* ^sm_[a-z0-9]+\.xml$ without the end-of-string quirk
pattern_core(f) ==
    /\ Len(f) > Len(SM_) + Len(DOT_XML)
    /\ startswith(f, SM_)
    /\ endswith(f, DOT_XML)
    /\ \A k \in (Len(SM_) + 1)..(Len(f) - Len(DOT_XML)) : f[k] \in LowerDigits

\* pattern.match(f): in Python, $ also matches before a trailing newline
pattern_match(f) ==
    \/ pattern_core(f)
    \/ f # <<>> /\ f[Len(f)] = "\n" /\ pattern_core(DropLast(f, 1))

\* get_existing_sitemaps() on a directory listing; the listing order is
\* unspecified and the result is only used through set() and len(), so the
\* list is kept as the set of its (distinct) names
get_existing_sitemaps(listing) == {f \in listing : pattern_match(f)}

SeqToBag(xs) == [x \in Range(xs) |-> Cardinality({k \in 1..Len(xs) : xs[k] = x})]

\* the index built from this run's names only
total_of_new(existing, new) == SeqToBag(new)

\* line 101: existing_sitemaps + new_sitemap_filenames, as a multiset
total_of(existing, new) == SetToBag(existing) (+) SeqToBag(new)

\* the index writer without set(): a name is listed as often as it occurs
RECURSIVE Flatten(_)
Flatten(ss) == IF ss = <<>> THEN <<>> ELSE Head(ss) \o Flatten(Tail(ss))
create_main_index_dups(sitemap_files, domain) ==
    LET once == SortedSet(BagToSet(sitemap_files))
        names == Flatten([k \in 1..Len(once) |->
                             [c \in 1..CopiesIn(once[k], sitemap_files) |-> once[k]]])
    IN  [k \in 1..Len(names) |-> HTTPS \o domain \o SLASH \o names[k]]

\* lines 66-67: the <loc> values of the index
create_main_index(sitemap_files, domain) ==
    LET names == SortedSet(BagToSet(sitemap_files))
    IN  [k \in 1..Len(names) |-> HTTPS \o domain \o SLASH \o names[k]]

\* lines 75-76: the Sitemap: line of robots.txt
create_robots_txt(domain) == HTTPS \o domain \o SLASH \o SITEMAP_XML

\* the chunking counting whole chunks only: a shorter last chunk is dropped
split_chunks_floor(urls, n) ==
    [k \in 1..(Len(urls) \div n) |-> SubSeq(urls, (k - 1) * n + 1, k * n)]

\* line 91: [all_urls[i:i + n] for i in range(0, len(all_urls), n)]
Min(a, b) == IF a < b THEN a ELSE b
split_chunks(urls, n) ==
    [k \in 1..((Len(urls) + n - 1) \div n) |->
        SubSeq(urls, (k - 1) * n + 1, Min(k * n, Len(urls)))]

(***************************************************************************)
(* The inputs: CNAME contents, directory trees, directory contents.        *)
(***************************************************************************)
D_IO == <<"d", ".", "i", "o">>
E_IO == <<"e", ".", "i", "o">>
NL == <<"\n">>

CnameFiles ==
    { NoFile,
      File(<<" ">> \o D_IO \o <<" ">> \o NL),
      File(D_IO \o NL \o E_IO \o NL) }

A_DIR == <<"a">>
A_DOT_DIR == <<"a", ".">>
B_HTML == <<"b">> \o DOT_HTML
MYINDEX_HTML == <<"m", "y">> \o INDEX_HTML
NOTES_TXT == <<"n", ".", "t", "x", "t">>

Dir(dirs, files) == [dirs |-> dirs, files |-> files]

\* b.html, index.html and a/index.html next to a text file
TreeSite ==
    (<<>> :> Dir(<<A_DIR>>, <<B_HTML, NOTES_TXT, INDEX_HTML>>))
    @@ (<<A_DIR>> :> Dir(<<>>, <<INDEX_HTML>>))

\* a repository: .git is pruned; myindex.html; a directory named "a."
TreeRepo ==
    (<<>> :> Dir(<<DOT_GIT, A_DOT_DIR>>, <<MYINDEX_HTML>>))
    @@ (<<DOT_GIT>> :> Dir(<<>>, <<B_HTML>>))
    @@ (<<A_DOT_DIR>> :> Dir(<<>>, <<B_HTML>>))

\* no HTML file at all
TreeEmpty == (<<>> :> Dir(<<>>, <<NOTES_TXT>>))

Trees == {TreeSite, TreeRepo, TreeEmpty}

\* a fragment name the generator can return again, and names the scanner
\* must tell apart
OldName == SM_ \o [k \in 1..DEFAULT_LENGTH |-> "a"] \o DOT_XML
OtherOldName == SM_ \o <<"z", "9">> \o DOT_XML
EmptyTokenName == SM_ \o DOT_XML
UpperName == SM_ \o <<"A">> \o DOT_XML
NewlineName == SM_ \o <<"7", "7", "7">> \o DOT_XML \o NL

OLD_LOCS == <<HTTPS \o D_IO \o SLASH \o <<"o", "l", "d">> \o DOT_HTML>>

InitialDirs ==
    { [n \in {} |-> OLD_LOCS],
      [n \in {OldName, OtherOldName, EmptyTokenName, UpperName, NewlineName}
          |-> OLD_LOCS] }

ChunkSizes == (1..MaxChunk) \cup {MAX_URLS}

(***************************************************************************)
(* State.                                                                  *)
(***************************************************************************)
VARIABLES
    cname,                  \* the CNAME file
    tree,                   \* the directory tree of the site's pages
    files,                  \* the other plain files of the working directory:
                            \*   name -> <loc> values of the fragment
    index,                  \* sitemap.xml: the <loc> values it lists
    robots,                 \* robots.txt: the URL of its Sitemap: line
    max_urls,               \* MAX_URLS of main()
    pc,                     \* position of the process in main()
    runs,                   \* invocations of the script so far
    domain, all_urls, existing_sitemaps, chunks, new_sitemap_filenames,
    i,                      \* number of chunks the for loop has handled
    stdout,                 \* the messages printed by this process
    error,                  \* the operation whose exception ended the process
    disk_at_start,          \* history: the directory listing when main() began
    trace,                  \* history: the operations main() has completed
    created                 \* history: fragment names written by any run

disk == <<cname, tree, files, index, robots, max_urls>>
locals == <<domain, all_urls, existing_sitemaps, chunks, new_sitemap_filenames, i>>
vars == <<cname, tree, files, index, robots, max_urls, pc, runs, domain,
          all_urls, existing_sitemaps, chunks, new_sitemap_filenames, i,
          stdout, error, disk_at_start, trace, created>>

\* os.listdir('.')
listdir ==
    DOMAIN files
    \cup Range(tree[<<>>].dirs) \cup Range(tree[<<>>].files)
    \cup (IF cname.exists THEN {CNAME} ELSE {})
    \cup (IF index.exists THEN {SITEMAP_XML} ELSE {})
    \cup (IF robots.exists THEN {ROBOTS_TXT} ELSE {})

\* open(name, 'w') followed by f.write(locs)
write_file(name, locs) ==
    [n \in DOMAIN files \cup {name} |-> IF n = name THEN locs ELSE files[n]]

Msg(m, name, count) == [msg |-> m, name |-> name, count |-> count]

Init ==
    /\ cname \in CnameFiles
    /\ tree \in Trees
    /\ files \in InitialDirs
    /\ index = NoFile
    /\ robots = NoFile
    /\ max_urls \in ChunkSizes
    /\ pc = "idle"
    /\ runs = 0
    /\ domain = <<>>
    /\ all_urls = <<>>
    /\ existing_sitemaps = {}
    /\ chunks = <<>>
    /\ new_sitemap_filenames = <<>>
    /\ i = 0
    /\ stdout = <<>>
    /\ error = "none"
    /\ disk_at_start = {}
    /\ trace = <<>>
    /\ created = {}

(***************************************************************************)
(* main(), one action per step.                                            *)
(***************************************************************************)

\* the script is started (again): a new process with fresh locals
Invoke ==
    /\ pc \in {"idle", "done", "crashed"}
    /\ runs < MaxRuns
    /\ pc' = "main"
    /\ runs' = runs + 1
    /\ domain' = <<>>
    /\ all_urls' = <<>>
    /\ existing_sitemaps' = {}
    /\ chunks' = <<>>
    /\ new_sitemap_filenames' = <<>>
    /\ i' = 0
    /\ stdout' = <<>>
    /\ error' = "none"
    /\ disk_at_start' = listdir
    /\ trace' = <<>>
    /\ UNCHANGED <<disk, created>>

\* line 81
GetDomain ==
    /\ pc = "main"
    /\ LET r == get_domain_from_cname(cname)
       IN  /\ domain' = r.domain
           /\ stdout' = IF r.warning
                        THEN Append(stdout, Msg("warning", <<>>, 0))
                        ELSE stdout
    /\ pc' = "walk"
    /\ trace' = Append(trace, "domain")
    /\ UNCHANGED <<disk, runs, all_urls, existing_sitemaps, chunks,
                   new_sitemap_filenames, i, error, disk_at_start, created>>

\* line 82
GetAllHtmlFiles ==
    /\ pc = "walk"
    /\ all_urls' = get_all_html_files(tree)
    /\ pc' = "scan"
    /\ trace' = Append(trace, "walk")
    /\ UNCHANGED <<disk, runs, domain, existing_sitemaps, chunks,
                   new_sitemap_filenames, i, stdout, error, disk_at_start,
                   created>>

\* line 88
GetExistingSitemaps ==
    /\ pc = "scan"
    /\ existing_sitemaps' = get_existing_sitemaps(listdir)
    /\ pc' = "chunk"
    /\ trace' = Append(trace, "scan")
    /\ UNCHANGED <<disk, runs, domain, all_urls, chunks,
                   new_sitemap_filenames, i, stdout, error, disk_at_start,
                   created>>

\* lines 91 and 93
SplitChunks ==
    /\ pc = "chunk"
    /\ chunks' = split_chunks(all_urls, max_urls)
    /\ new_sitemap_filenames' = <<>>
    /\ i' = 0
    /\ pc' = "loop"
    /\ trace' = Append(trace, "split")
    /\ UNCHANGED <<disk, runs, domain, all_urls, existing_sitemaps, stdout,
                   error, disk_at_start, created>>

\* lines 95-98: one iteration of the loop, the generator returning new_name
WriteChunk(new_name) ==
    /\ pc = "loop"
    /\ i < Len(chunks)
    /\ files' = write_file(new_name, chunk_locs(chunks[i + 1], domain))
    /\ new_sitemap_filenames' = Append(new_sitemap_filenames, new_name)
    /\ stdout' = Append(stdout, Msg("generated", new_name, 0))
    /\ i' = i + 1
    /\ trace' = Append(trace, "fragment")
    /\ created' = created \cup {new_name}
    /\ UNCHANGED <<cname, tree, index, robots, max_urls, pc, runs, domain,
                   all_urls, existing_sitemaps, chunks, error, disk_at_start>>

\* a failed fragment write that is caught: the loop goes on to the next chunk
WriteChunkFails_caught(new_name, opened) ==
    /\ pc = "loop"
    /\ i < Len(chunks)
    /\ files' = IF opened THEN write_file(new_name, <<>>) ELSE files
    /\ i' = i + 1
    /\ error' = "fragment"
    /\ UNCHANGED <<cname, tree, index, robots, max_urls, pc, runs, domain,
                   all_urls, existing_sitemaps, chunks, new_sitemap_filenames,
                   stdout, disk_at_start, trace, created>>

\* lines 51-52 raise (permission denied, disk full): nothing catches the
\* exception; the file is untouched when open() failed and left empty when
\* write() failed
WriteChunkFails(new_name, opened) ==
    /\ pc = "loop"
    /\ i < Len(chunks)
    /\ files' = IF opened THEN write_file(new_name, <<>>) ELSE files
    /\ pc' = "crashed"
    /\ error' = "fragment"
    /\ UNCHANGED <<cname, tree, index, robots, max_urls, runs, locals, stdout,
                   disk_at_start, trace, created>>

\* lines 101-105
CreateMainIndex ==
    /\ pc = "loop"
    /\ i = Len(chunks)
    /\ LET total_sitemaps == total_of(existing_sitemaps, new_sitemap_filenames)
       IN  /\ index' = File(create_main_index(total_sitemaps, domain))
           /\ stdout' = Append(stdout,
                               Msg("updated", <<>>, BagCardinality(total_sitemaps)))
    /\ pc' = "robots"
    /\ trace' = Append(trace, "index")
    /\ UNCHANGED <<cname, tree, files, robots, max_urls, runs, locals, error,
                   disk_at_start, created>>

\* lines 70-71 raise
CreateMainIndexFails(opened) ==
    /\ pc = "loop"
    /\ i = Len(chunks)
    /\ index' = IF opened THEN File(<<>>) ELSE index
    /\ pc' = "crashed"
    /\ error' = "index"
    /\ UNCHANGED <<cname, tree, files, robots, max_urls, runs, locals, stdout,
                   disk_at_start, trace, created>>

\* line 108
CreateRobotsTxt ==
    /\ pc = "robots"
    /\ robots' = File(create_robots_txt(domain))
    /\ pc' = "done"
    /\ trace' = Append(trace, "robots")
    /\ UNCHANGED <<cname, tree, files, index, max_urls, runs, locals, stdout,
                   error, disk_at_start, created>>

\* lines 77-78 raise
CreateRobotsTxtFails(opened) ==
    /\ pc = "robots"
    /\ robots' = IF opened THEN File(<<>>) ELSE robots
    /\ pc' = "crashed"
    /\ error' = "robots"
    /\ UNCHANGED <<cname, tree, files, index, max_urls, runs, locals, stdout,
                   disk_at_start, trace, created>>

Next ==
    \/ Invoke
    \/ GetDomain
    \/ GetAllHtmlFiles
    \/ GetExistingSitemaps
    \/ SplitChunks
    \/ \E new_name \in generate_random_name(DEFAULT_LENGTH) : WriteChunk(new_name)
    \/ \E new_name \in generate_random_name(DEFAULT_LENGTH), opened \in BOOLEAN :
          WriteChunkFails(new_name, opened)
    \/ CreateMainIndex
    \/ \E opened \in BOOLEAN : CreateMainIndexFails(opened)
    \/ CreateRobotsTxt
    \/ \E opened \in BOOLEAN : CreateRobotsTxtFails(opened)

Spec == Init /\ [][Next]_vars

(***************************************************************************)
(* The chunking and the fragment writer on arbitrary URL lists: main()     *)
(* from line 91 on, entered with a list that need not come from a walk     *)
(* (paths with leading slashes included).                                  *)
(***************************************************************************)
UnitPaths ==
    { B_HTML,
      SLASH \o B_HTML,
      SLASH \o SLASH \o A_DIR \o SLASH }

UnitLists == UNION {[1..n -> UnitPaths] : n \in 0..MaxLen}

InitUnit ==
    /\ cname = NoFile
    /\ tree = TreeEmpty
    /\ files = [n \in {} |-> OLD_LOCS]
    /\ index = NoFile
    /\ robots = NoFile
    /\ max_urls \in 1..MaxChunk
    /\ pc = "chunk"
    /\ runs = 1
    /\ domain \in {D_IO, EXAMPLE_COM}
    /\ all_urls \in UnitLists
    /\ existing_sitemaps = {}
    /\ chunks = <<>>
    /\ new_sitemap_filenames = <<>>
    /\ i = 0
    /\ stdout = <<>>
    /\ error = "none"
    /\ disk_at_start = {}
    /\ trace = <<>>
    /\ created = {}

NextUnit ==
    \/ SplitChunks
    \/ \E new_name \in generate_random_name(DEFAULT_LENGTH) : WriteChunk(new_name)

SpecUnit == InitUnit /\ [][NextUnit]_vars

(***************************************************************************)
(* Properties.                                                             *)
(***************************************************************************)

\* the file name a <loc> of this run's domain refers to
LocName(loc) == SubSeq(loc, Len(HTTPS) + Len(domain) + 2, Len(loc))

\* the fragment names sitemap.xml lists, in the order it lists them
IndexNames == [k \in 1..Len(index.content) |-> LocName(index.content[k])]

UrlPrefix(d) == HTTPS \o d \o SLASH

\* C1: once a run has written sitemap.xml, the names it lists are exactly
\* the fragment names found in the directory when the run began together
\* with the names the run created, each listed once, in increasing order.
C1_IndexIsUnion ==
    pc \in {"robots", "done"} =>
        LET expected == {f \in disk_at_start : pattern_match(f)}
                            \cup Range(new_sitemap_filenames)
        IN  /\ index.exists
            /\ Range(IndexNames) = expected
            /\ Len(IndexNames) = Cardinality(expected)
            /\ \A k \in 1..(Len(IndexNames) - 1) :
                   StrLess(IndexNames[k], IndexNames[k + 1])

C1_Witness ==
    /\ pc = "done"
    /\ \E k \in 1..Len(new_sitemap_filenames) :
           new_sitemap_filenames[k] \in disk_at_start
    /\ Len(IndexNames) >= 2
    /\ Len(new_sitemap_filenames) >= 2

\* C2: no step removes a fragment file from the directory, and whenever a
\* run completes, sitemap.xml lists every fragment name written by this
\* run and by all runs before it.
C2_Accumulate ==
    [][ /\ DOMAIN files \subseteq DOMAIN files'
        /\ (pc' = "done" => created' \subseteq Range(IndexNames')) ]_vars

C2_Witness ==
    /\ pc = "done"
    /\ runs = 2
    /\ all_urls # <<>>
    /\ Cardinality(created) >= 2
    /\ \E n \in created : n \notin Range(new_sitemap_filenames)

\* the site-relative path of a directory, from its components
RECURSIVE DirPath(_)
DirPath(comps) ==
    IF comps = <<>> THEN <<>> ELSE Head(comps) \o SLASH \o DirPath(Tail(comps))

\* C3: the URL path of a discovered index.html is the path of its
\* directory; the URL path of any other discovered HTML file is its
\* site-relative file path, unchanged.
C3_UrlPath ==
    pc \in {"scan", "chunk", "loop", "robots", "done"} =>
        LET found == walk_html(tree, <<>>, DOT)
        IN  /\ Len(all_urls) = Len(found)
            /\ \A k \in 1..Len(found) :
                   all_urls[k] =
                       IF found[k].file = INDEX_HTML
                       THEN DirPath(found[k].comps)
                       ELSE DirPath(found[k].comps) \o found[k].file

\* C4: the chunks concatenated give back the URL list; every chunk but the
\* last has exactly max_urls entries; no chunk has more; no chunk is empty.
C4_Chunks ==
    pc = "loop" =>
        /\ Flatten(chunks) = all_urls
        /\ \A k \in 1..(Len(chunks) - 1) : Len(chunks[k]) = max_urls
        /\ \A k \in 1..Len(chunks) :
               Len(chunks[k]) >= 1 /\ Len(chunks[k]) <= max_urls
        /\ (all_urls = <<>> => chunks = <<>>)

C4_Witness ==
    /\ pc = "loop"
    /\ Len(chunks) >= 2
    /\ Len(chunks[Len(chunks)]) < max_urls

\* C5: no step changes the content of a fragment file that is on disk.
C5_WrittenOnce ==
    [][ \A n \in DOMAIN files :
            pattern_match(n) => n \in DOMAIN files' /\ files'[n] = files[n] ]_vars

\* C6: without a CNAME file the process gets past reading the domain with
\* a warning, the domain is example.com, and every URL this run writes to
\* a fragment, to sitemap.xml and to robots.txt begins https://example.com/.
C6_DefaultDomain ==
    (~cname.exists /\ pc \notin {"idle", "main"}) =>
        /\ trace # <<>> /\ trace[1] = "domain"
        /\ domain = EXAMPLE_COM
        /\ stdout # <<>> /\ stdout[1].msg = "warning"
        /\ \A k \in 1..Len(new_sitemap_filenames) :
               \A m \in 1..Len(files[new_sitemap_filenames[k]]) :
                   startswith(files[new_sitemap_filenames[k]][m],
                              UrlPrefix(EXAMPLE_COM))
        /\ pc \in {"robots", "done"} =>
               \A k \in 1..Len(index.content) :
                   startswith(index.content[k], UrlPrefix(EXAMPLE_COM))
        /\ pc = "done" =>
               robots.content = UrlPrefix(EXAMPLE_COM) \o SITEMAP_XML

C6_Witness ==
    /\ ~cname.exists
    /\ pc = "done"
    /\ new_sitemap_filenames # <<>>
    /\ files[new_sitemap_filenames[1]] # <<>>

\* the text before the first line break
RECURSIVE FirstLine(_)
FirstLine(s) ==
    IF s = <<>> \/ Head(s) = "\n" THEN <<>> ELSE <<Head(s)>> \o FirstLine(Tail(s))

\* C7: with a CNAME file the domain of the run is the file's first line,
\* trimmed.
C7_FirstLine ==
    (cname.exists /\ pc \notin {"idle", "main"}) =>
        domain = strip(FirstLine(cname.content))

\* a path without its leading slashes
NoLeadingSlashes(p) ==
    LET n == Cardinality({k \in 1..Len(p) : \A j \in 1..k : p[j] = "/"})
    IN  SubSeq(p, n + 1, Len(p))

\* chunk k of this run is the last one written to its file name
LastWriter(k) ==
    \A j \in (k + 1)..Len(new_sitemap_filenames) :
        new_sitemap_filenames[j] # new_sitemap_filenames[k]

\* C8: every <loc> written for a path is https://, the domain, one slash
\* and the path without its leading slashes; the character after that
\* slash is never a slash.
C8_SingleSlash ==
    \A k \in 1..Len(new_sitemap_filenames) :
        LastWriter(k) =>
            LET locs == files[new_sitemap_filenames[k]]
                at == Len(HTTPS) + Len(domain) + 1
            IN  /\ Len(locs) = Len(chunks[k])
                /\ \A m \in 1..Len(locs) :
                       /\ locs[m] = HTTPS \o domain \o SLASH
                                        \o NoLeadingSlashes(chunks[k][m])
                       /\ locs[m][at] = "/"
                       /\ Len(locs[m]) > at => locs[m][at + 1] # "/"

C8_Witness ==
    \E k \in 1..Len(new_sitemap_filenames) :
        /\ LastWriter(k)
        /\ \E m \in 1..Len(chunks[k]) :
               /\ startswith(chunks[k][m], SLASH \o SLASH)
               /\ files[new_sitemap_filenames[k]][m]
                      = HTTPS \o domain \o SLASH \o A_DIR \o SLASH

\* C9: when a run completes, each of its chunks is on disk in a fragment
\* of its own that lists exactly the chunk's paths, and sitemap.xml lists
\* every one of these fragments.
C9_EveryChunkOnDisk ==
    pc = "done" =>
        /\ Len(new_sitemap_filenames) = Len(chunks)
        /\ \A k \in 1..Len(chunks) :
               /\ files[new_sitemap_filenames[k]] = chunk_locs(chunks[k], domain)
               /\ new_sitemap_filenames[k] \in Range(IndexNames)
        /\ \A j, k \in 1..Len(chunks) :
               j # k => new_sitemap_filenames[j] # new_sitemap_filenames[k]

\* every a in the trace comes before every b
Before(a, b) ==
    \A x, y \in 1..Len(trace) : (trace[x] = a /\ trace[y] = b) => x < y
Count(a) == Cardinality({x \in 1..Len(trace) : trace[x] = a})

\* C10: in a run the scan of existing fragments precedes every fragment
\* write, all fragment writes precede the write of sitemap.xml, and
\* robots.txt is written after sitemap.xml; the fragments sitemap.xml
\* lists are on disk; a run whose fragment write failed has ended without
\* writing sitemap.xml or robots.txt.
C10_Order ==
    /\ Before("scan", "fragment")
    /\ Before("fragment", "index")
    /\ Before("index", "robots")
    /\ Count("fragment") > 0 => Count("scan") = 1
    /\ Count("index") > 0 => Count("scan") = 1 /\ Count("fragment") = Len(chunks)
    /\ Count("robots") > 0 => Count("index") = 1
    /\ Count("index") > 0 => Range(IndexNames) \subseteq DOMAIN files
    /\ error = "fragment" =>
           pc = "crashed" /\ Count("index") = 0 /\ Count("robots") = 0

C10_Witness ==
    /\ pc = "crashed"
    /\ error = "fragment"
    /\ new_sitemap_filenames # <<>>
    /\ runs = 2
    /\ index.exists

====
